---- MODULE Spec2Model ----
(***************************************************************************)
(* The stream runtime of kaitai-rs (kaitai/src/runtime/stream.rs): the     *)
(* KaitaiStream trait over a std::io::Cursor<Vec<u8>>, the byte source its *)
(* tests use.  The state is the cursor's buffer and position plus a record *)
(* of the last call and what it returned.  Two more processes stand beside *)
(* it: one expansion of the kaitai_source attribute macro                  *)
(* (kaitai-macros/src/lib.rs), and one repeat-until-eos loop of a          *)
(* generated parser running on the stream.                                 *)
(***************************************************************************)
EXTENDS Integers, Sequences, FiniteSets, TLC

VARIABLES data, cursor, last, expansion, repeat

vars == <<data, cursor, last, expansion, repeat>>

----------------------------------------------------------------------------
(* Bounds of the model.                                                    *)

\* Longest stream generated over ByteAlphabet.
MaxLen == 3
\* How far beyond the end of the stream a seek may place the cursor.
MaxPast == 2
\* Largest count handed to read_bytes.
MaxCount == 4
\* Longest expected slice generated over ByteAlphabet for ensure_fixed_contents.
MaxExpected == 2

----------------------------------------------------------------------------
(* Streams and inputs.                                                     *)

ByteAlphabet == {0, 255}

SeqsUpTo(S, n) == UNION {[1..k -> S] : k \in 0..n}

\* tests::new_buf
new_buf == <<0, 1, 2, 3, 4, 5, 6, 7, 8, 9>>

\* The buffer of tests::test_read_integer.
int_buf == <<1, 2, 3, 4, 5, 6, 7, 8>>

\* Buffers whose integers have the sign bit set in either byte order.
high_bufs == {<<255, 255, 255, 255, 255, 255, 255, 255>>,
              <<128, 0, 0, 0, 0, 0, 0, 0, 128>>,
              <<254, 1, 128, 127, 0, 255, 2, 129, 200>>}

Streams == SeqsUpTo(ByteAlphabet, MaxLen) \cup {new_buf, int_buf} \cup high_bufs

\* A char is its code point.
Char(cp) == [cp |-> cp]

\* Terminators: bytes of the streams (those of tests::read_bytes_term among
\* them), a byte of no stream, and a code point no byte can have.
Terms == {Char(cp) : cp \in {0, 3, 6, 7, 8, 21, 255, 259}}

\* Expected contents: the slices of tests::ensure_fixed_contents and every
\* short slice over the alphabet.
Expecteds == SeqsUpTo(ByteAlphabet, MaxExpected)
             \cup {<<0, 1, 2>>, <<3, 4>>, <<6, 7, 8>>, <<8, 9, 10>>}

\* The widths of the integer types, in bytes.
Widths == {1, 2, 4, 8}

Min(a, b) == IF a <= b THEN a ELSE b
Max(a, b) == IF a >= b THEN a ELSE b

RECURSIVE Reverse(_)
Reverse(s) == IF s = <<>> THEN <<>> ELSE Append(Reverse(Tail(s)), Head(s))

----------------------------------------------------------------------------
(* std::io::Cursor<Vec<u8>>: Read and Seek as the trait's methods call     *)
(* them.  d is the buffer, p the position (a u64: it may lie beyond the    *)
(* end of the buffer).                                                     *)

\* The bytes between the position and the end of the buffer.
remaining_slice(d, p) == IF p >= Len(d) THEN <<>> ELSE SubSeq(d, p + 1, Len(d))

\* Read::read into a one-byte buffer: n bytes were read, byte is the byte.
read_one(d, p) ==
    IF remaining_slice(d, p) = <<>>
    THEN [n |-> 0, byte |-> 0, pos |-> p]
    ELSE [n |-> 1, byte |-> d[p + 1], pos |-> p + 1]

\* Seek::seek(SeekFrom::Current(off)) and SeekFrom::End(off): the new
\* position is base + off; a negative one is an error and moves nothing.
seek_from(base, p, off) ==
    IF base + off < 0
    THEN [ok |-> FALSE, pos |-> p]
    ELSE [ok |-> TRUE, pos |-> base + off]

\* A read into a zeroed buffer of n bytes that takes what is there (Read::read
\* in place of Read::read_exact) and leaves the rest of the buffer zero.
read_exact_zero_pads(d, p, n) ==
    IF Len(remaining_slice(d, p)) >= n
    THEN {[ok |-> TRUE, buf |-> SubSeq(remaining_slice(d, p), 1, n), pos |-> p + n]}
    ELSE {[ok |-> TRUE,
           buf |-> remaining_slice(d, p)
                   \o [k \in 1..(n - Len(remaining_slice(d, p))) |-> 0],
           pos |-> p + Len(remaining_slice(d, p))]}

\* Read::read_exact into a buffer of n bytes.  Short of n bytes it fails with
\* UnexpectedEof; where that leaves the position is not specified by Read
\* (Cursor has left it in place, and has moved it to the end), so both
\* outcomes are possible.
read_exact(d, p, n) ==
    IF Len(remaining_slice(d, p)) >= n
    THEN {[ok |-> TRUE, buf |-> SubSeq(remaining_slice(d, p), 1, n), pos |-> p + n]}
    ELSE {[ok |-> FALSE, buf |-> <<>>, pos |-> q] : q \in {p, Len(d)}}

\* Read::read_to_end: everything that remains; the position ends at the end
\* of the buffer, or stays where it was beyond it.
read_to_end(d, p) ==
    [buf |-> remaining_slice(d, p), pos |-> p + Len(remaining_slice(d, p))]

----------------------------------------------------------------------------
(* Values of the integer types.  A 64-bit value does not fit TLC's         *)
(* integers, so an integer is its sign and its magnitude in four limbs of  *)
(* 16 bits, least significant first.                                       *)

Num(n) == [neg |-> n < 0,
           mag |-> LET m == IF n < 0 THEN 0 - n ELSE n
                   IN <<m % 65536, m \div 65536, 0, 0>>]

\* The capacity of limb i of a width-byte integer.
LimbBase(i, width) ==
    IF 2 * i <= width THEN 65536 ELSE IF 2 * i - 1 <= width THEN 256 ELSE 1

\* 2^(8*width) - mag, limb by limb with borrow: the magnitude of the negative
\* number whose two's complement bit pattern is mag.
NegMod(mag, width) ==
    [i \in 1..4 |->
        LET borrow == IF \E j \in 1..(i - 1) : mag[j] # 0 THEN 1 ELSE 0
        IN (LimbBase(i, width) - mag[i] - borrow) % LimbBase(i, width)]

----------------------------------------------------------------------------
(* The record of a call: its name, arguments, the cursor before it, and    *)
(* the Result it returned.                                                 *)

Call == [op |-> "new", pre |-> 0,
         count |-> 0, term |-> Char(0), include |-> FALSE, consume |-> FALSE,
         expected |-> <<>>, width |-> 0, signed |-> FALSE, big |-> FALSE,
         ok |-> TRUE, err |-> "", errTerm |-> Char(0), actual |-> <<>>,
         errExpected |-> <<>>,
         bytes |-> <<>>, bool |-> FALSE, u64 |-> 0, int |-> Num(0)]

\* Error::Io, from the io::Error of a failed read_exact or seek.
IoUnexpectedEof == "Io(UnexpectedEof)"
IoInvalidInput == "Io(InvalidInput)"

----------------------------------------------------------------------------
(* KaitaiStream.  Each method is a function of the buffer and the position *)
(* to the Result and the position it leaves.                               *)

\* fn is_eof: read one byte, seek back by one, report whether nothing was read.
is_eof(d, p) ==
    LET rd == read_one(d, p)
        result == (rd.n = 0)
        sk == seek_from(rd.pos, rd.pos, -1)
    IN IF ~sk.ok
       THEN [ok |-> FALSE, err |-> IoInvalidInput, bool |-> FALSE, pos |-> sk.pos]
       ELSE [ok |-> TRUE, err |-> "", bool |-> result, pos |-> sk.pos]

\* fn pos: Seek::stream_position, that is seek(SeekFrom::Current(0)).
pos(d, p) ==
    LET sk == seek_from(p, p, 0)
    IN [ok |-> sk.ok, u64 |-> sk.pos, pos |-> sk.pos]

\* size that seeks to the end for the length and does not seek back.
size_stays_at_end(d, p) ==
    [ok |-> TRUE, u64 |-> seek_from(Len(d), p, 0).pos,
     pos |-> seek_from(Len(d), p, 0).pos]

\* fn size: Seek::stream_len: remember the position, seek to the end, seek
\* back unless already there.
size(d, p) ==
    LET old_pos == pos(d, p).u64
        len == seek_from(Len(d), old_pos, 0).pos
        back == IF old_pos # len THEN old_pos ELSE len
    IN [ok |-> TRUE, u64 |-> len, pos |-> back]

\* read_bytes that fills its buffer from the start of the stream.
read_bytes_from_start(d, p, count) ==
    {IF r.ok
     THEN [ok |-> TRUE, err |-> "", bytes |-> SubSeq(d, 1, count), pos |-> r.pos]
     ELSE [ok |-> FALSE, err |-> IoUnexpectedEof, bytes |-> <<>>, pos |-> r.pos]
     : r \in read_exact(d, p, count)}

\* fn read_bytes
read_bytes(d, p, count) ==
    {IF r.ok
     THEN [ok |-> TRUE, err |-> "", bytes |-> r.buf, pos |-> r.pos]
     ELSE [ok |-> FALSE, err |-> IoUnexpectedEof, bytes |-> <<>>, pos |-> r.pos]
     : r \in read_exact(d, p, count)}

\* read_bytes_full whose size query leaves the cursor at the start of the
\* stream, so that the bytes already consumed are returned again.
read_bytes_full_from_start(d, p) ==
    LET r == read_to_end(d, 0)
    IN [ok |-> TRUE, err |-> "", bytes |-> r.buf, pos |-> r.pos]

\* fn read_bytes_full
read_bytes_full(d, p) ==
    LET sz == size(d, p)
        r == read_to_end(d, sz.pos)
    IN [ok |-> TRUE, err |-> "", bytes |-> r.buf, pos |-> r.pos]

\* `byte as char`: the char whose code point is the byte's value.
u8_as_char(byte) == Char(byte)

\* fn read_bytes_term: the loop, with the buffer collected so far.
RECURSIVE read_bytes_term_loop(_, _, _, _, _, _)
read_bytes_term_loop(d, p, term, include, consume, buffer) ==
    LET rd == read_one(d, p)
    IN IF rd.n = 0
       THEN [ok |-> FALSE, err |-> "EofBeforeTerminator", errTerm |-> term,
             bytes |-> <<>>, pos |-> rd.pos]
       ELSE IF u8_as_char(rd.byte) = term
       THEN IF include
            THEN [ok |-> TRUE, err |-> "", errTerm |-> Char(0),
                  bytes |-> Append(buffer, rd.byte), pos |-> rd.pos]
            ELSE IF ~consume
            THEN [ok |-> TRUE, err |-> "", errTerm |-> Char(0),
                  bytes |-> buffer, pos |-> seek_from(rd.pos, rd.pos, -1).pos]
            ELSE [ok |-> TRUE, err |-> "", errTerm |-> Char(0),
                  bytes |-> buffer, pos |-> rd.pos]
       ELSE read_bytes_term_loop(d, rd.pos, term, include, consume,
                                 Append(buffer, rd.byte))

\* read_bytes_term that never appends the terminator.
read_bytes_term_drops_terminator(d, p, term, include, consume) ==
    LET r == read_bytes_term_loop(d, p, term, include, consume, <<>>)
    IN IF r.ok /\ include
       THEN [r EXCEPT !.bytes = SubSeq(r.bytes, 1, Len(r.bytes) - 1)]
       ELSE r

\* read_bytes_term that returns what it collected when the stream ends.
read_bytes_term_partial_at_eof(d, p, term, include, consume) ==
    LET r == read_bytes_term_loop(d, p, term, include, consume, <<>>)
    IN IF r.ok
       THEN r
       ELSE [ok |-> TRUE, err |-> "", errTerm |-> Char(0),
             bytes |-> remaining_slice(d, p), pos |-> r.pos]

\* read_bytes_term that seeks back to where it started when the stream ends.
read_bytes_term_restores_cursor(d, p, term, include, consume) ==
    LET r == read_bytes_term_loop(d, p, term, include, consume, <<>>)
    IN IF r.ok THEN r ELSE [r EXCEPT !.pos = p]

\* read_bytes_term that compares bytes (`term as u8 == temp_buffer[0]`), so
\* that the terminator's code point is taken modulo 256.
read_bytes_term_truncates_term(d, p, term, include, consume) ==
    LET r == read_bytes_term_loop(d, p, Char(term.cp % 256), include, consume, <<>>)
    IN IF r.ok THEN r ELSE [r EXCEPT !.errTerm = term]

\* fn read_bytes_term
read_bytes_term(d, p, term, include, consume) ==
    read_bytes_term_loop(d, p, term, include, consume, <<>>)

\* ensure_fixed_contents that names the two byte strings the wrong way round.
ensure_fixed_contents_swapped(d, p, expected) ==
    {IF r.ok
     THEN IF r.buf = expected
          THEN [ok |-> TRUE, err |-> "", actual |-> <<>>,
                errExpected |-> <<>>, pos |-> r.pos]
          ELSE [ok |-> FALSE, err |-> "UnexpectedContents", actual |-> expected,
                errExpected |-> r.buf, pos |-> r.pos]
     ELSE [ok |-> FALSE, err |-> IoUnexpectedEof, actual |-> <<>>,
           errExpected |-> <<>>, pos |-> r.pos]
     : r \in read_exact(d, p, Len(expected))}

\* ensure_fixed_contents that puts the cursor back on a mismatch.
ensure_fixed_contents_rewinds(d, p, expected) ==
    {IF r.ok
     THEN IF r.buf = expected
          THEN [ok |-> TRUE, err |-> "", actual |-> <<>>,
                errExpected |-> <<>>, pos |-> r.pos]
          ELSE [ok |-> FALSE, err |-> "UnexpectedContents", actual |-> r.buf,
                errExpected |-> expected, pos |-> p]
     ELSE [ok |-> FALSE, err |-> IoUnexpectedEof, actual |-> <<>>,
           errExpected |-> <<>>, pos |-> r.pos]
     : r \in read_exact(d, p, Len(expected))}

\* fn ensure_fixed_contents
ensure_fixed_contents(d, p, expected) ==
    {IF r.ok
     THEN IF r.buf = expected
          THEN [ok |-> TRUE, err |-> "", actual |-> <<>>,
                errExpected |-> <<>>, pos |-> r.pos]
          ELSE [ok |-> FALSE, err |-> "UnexpectedContents", actual |-> r.buf,
                errExpected |-> expected, pos |-> r.pos]
     ELSE [ok |-> FALSE, err |-> IoUnexpectedEof, actual |-> <<>>,
           errExpected |-> <<>>, pos |-> r.pos]
     : r \in read_exact(d, p, Len(expected))}

\* A read of an unsigned integer that takes every buffer as little endian.
uint_from_bytes_always_le(buf, big) ==
    LET byte(k) == IF k <= Len(buf) THEN buf[k] ELSE 0
    IN [i \in 1..4 |-> byte(2 * i - 1) + 256 * byte(2 * i)]

\* byteorder's LittleEndian / BigEndian read of an unsigned integer from a
\* buffer of its width: the magnitude, in limbs.
uint_from_bytes(buf, big) ==
    LET le == IF big THEN Reverse(buf) ELSE buf
        byte(k) == IF k <= Len(le) THEN le[k] ELSE 0
    IN [i \in 1..4 |-> byte(2 * i - 1) + 256 * byte(2 * i)]

\* The unsigned bit pattern as the signed integer of the same width (two's
\* complement, as byteorder's read_iN casts the unsigned read).
as_signed(mag, width) ==
    IF mag[(width + 1) \div 2] >= LimbBase((width + 1) \div 2, width) \div 2
    THEN [neg |-> TRUE, mag |-> NegMod(mag, width)]
    ELSE [neg |-> FALSE, mag |-> mag]

\* What a read of a width-byte integer makes of read_exact's outcome.
int_result(r, width, signed, big) ==
    IF r.ok
    THEN [ok |-> TRUE, err |-> "", pos |-> r.pos,
          int |-> IF signed
                  THEN as_signed(uint_from_bytes(r.buf, big), width)
                  ELSE [neg |-> FALSE, mag |-> uint_from_bytes(r.buf, big)]]
    ELSE [ok |-> FALSE, err |-> IoUnexpectedEof, pos |-> r.pos, int |-> Num(0)]

\* fn read_u1: ReadBytesExt::read_u8
read_u1(d, p) ==
    {int_result(r, 1, FALSE, FALSE) : r \in read_exact(d, p, 1)}

\* fn read_s1: ReadBytesExt::read_i8
read_s1(d, p) ==
    {int_result(r, 1, TRUE, FALSE) : r \in read_exact(d, p, 1)}

\* generate_read_functions: fn read_<letter><size>le
read_le(d, p, width, signed) ==
    {int_result(r, width, signed, FALSE) : r \in read_exact(d, p, width)}

\* generate_read_functions: fn read_<letter><size>be
read_be(d, p, width, signed) ==
    {int_result(r, width, signed, TRUE) : r \in read_exact(d, p, width)}

----------------------------------------------------------------------------
(* The processes beside the stream, when they are not running.             *)

\* No macro expansion is under way.
NotExpanding ==
    [pc |-> "idle", stages |-> 0, out |-> "none",
     in |-> [args |-> "LitStr", item |-> "Struct", fields |-> "Unit",
             file |-> "Ok", yaml |-> "OneDoc", top |-> "Hash", ty |-> "Ok"]]

\* No repeat-until-eos loop is under way.
NotRepeating == [pc |-> "idle", width |-> 1, elems |-> <<>>]

----------------------------------------------------------------------------
(* The state machine: a cursor over one buffer, and the calls made on it.  *)

Init ==
    /\ data \in Streams
    /\ cursor = 0
    /\ last = Call
    /\ expansion = NotExpanding
    /\ repeat = NotRepeating

\* Seek::seek, as the tests call it between reads.
Seek ==
    /\ \/ \E n \in 0..(Len(data) + MaxPast) :
             cursor' = n
       \/ \E off \in {-3, 1, 4} :
             /\ cursor + off <= Len(data) + MaxPast
             /\ cursor' = seek_from(cursor, cursor, off).pos
       \/ cursor' = seek_from(Len(data), cursor, 0).pos
    /\ last' = [Call EXCEPT !.op = "seek"]
    /\ UNCHANGED <<data, expansion, repeat>>

IsEof ==
    LET r == is_eof(data, cursor)
    IN /\ cursor' = r.pos
       /\ last' = [Call EXCEPT !.op = "is_eof", !.pre = cursor,
                               !.ok = r.ok, !.err = r.err, !.bool = r.bool]
       /\ UNCHANGED <<data, expansion, repeat>>

Pos ==
    LET r == pos(data, cursor)
    IN /\ cursor' = r.pos
       /\ last' = [Call EXCEPT !.op = "pos", !.pre = cursor, !.u64 = r.u64]
       /\ UNCHANGED <<data, expansion, repeat>>

Size ==
    LET r == size(data, cursor)
    IN /\ cursor' = r.pos
       /\ last' = [Call EXCEPT !.op = "size", !.pre = cursor, !.u64 = r.u64]
       /\ UNCHANGED <<data, expansion, repeat>>

ReadBytes ==
    \E count \in 0..MaxCount :
        \E r \in read_bytes(data, cursor, count) :
            /\ cursor' = r.pos
            /\ last' = [Call EXCEPT !.op = "read_bytes", !.pre = cursor,
                                    !.count = count, !.ok = r.ok,
                                    !.err = r.err, !.bytes = r.bytes]
            /\ UNCHANGED <<data, expansion, repeat>>

ReadBytesFull ==
    LET r == read_bytes_full(data, cursor)
    IN /\ cursor' = r.pos
       /\ last' = [Call EXCEPT !.op = "read_bytes_full", !.pre = cursor,
                               !.ok = r.ok, !.err = r.err, !.bytes = r.bytes]
       /\ UNCHANGED <<data, expansion, repeat>>

ReadBytesTerm ==
    \E term \in Terms, include \in BOOLEAN, consume \in BOOLEAN :
        LET r == read_bytes_term(data, cursor, term, include, consume)
        IN /\ cursor' = r.pos
           /\ last' = [Call EXCEPT !.op = "read_bytes_term", !.pre = cursor,
                                   !.term = term, !.include = include,
                                   !.consume = consume, !.ok = r.ok,
                                   !.err = r.err, !.errTerm = r.errTerm,
                                   !.bytes = r.bytes]
           /\ UNCHANGED <<data, expansion, repeat>>

EnsureFixedContents ==
    \E expected \in Expecteds :
        \E r \in ensure_fixed_contents(data, cursor, expected) :
            /\ cursor' = r.pos
            /\ last' = [Call EXCEPT !.op = "ensure_fixed_contents",
                                    !.pre = cursor, !.expected = expected,
                                    !.ok = r.ok, !.err = r.err,
                                    !.actual = r.actual,
                                    !.errExpected = r.errExpected]
            /\ UNCHANGED <<data, expansion, repeat>>

\* read_u1, read_s1 and the twelve generated integer readers.
ReadInt ==
    \E width \in Widths, signed \in BOOLEAN, big \in BOOLEAN :
        /\ width = 1 => ~big
        /\ \E r \in IF width = 1
                     THEN IF signed THEN read_s1(data, cursor)
                                    ELSE read_u1(data, cursor)
                     ELSE IF big THEN read_be(data, cursor, width, signed)
                                 ELSE read_le(data, cursor, width, signed) :
              /\ cursor' = r.pos
              /\ last' = [Call EXCEPT !.op = "read_int", !.pre = cursor,
                                      !.width = width, !.signed = signed,
                                      !.big = big, !.ok = r.ok, !.err = r.err,
                                      !.int = r.int]
              /\ UNCHANGED <<data, expansion, repeat>>

Next ==
    \/ Seek
    \/ IsEof
    \/ Pos
    \/ Size
    \/ ReadBytes
    \/ ReadBytesFull
    \/ ReadBytesTerm
    \/ EnsureFixedContents
    \/ ReadInt

Spec == Init /\ [][Next]_vars

----------------------------------------------------------------------------
(* kaitai_source (kaitai-macros/src/lib.rs): one expansion of the          *)
(* attribute macro.  expansion.in is what the expansion meets at each      *)
(* stage, expansion.pc the stage it is about to run, expansion.stages the  *)
(* number of stages run, expansion.out what it handed back to the compiler *)
(* ("none" while running and after a panic).                               *)

\* What types::ty can return to the match on its Result.
ty_results == {"Ok", "Err"}

\* What an expansion can meet: the attribute's argument, the annotated item
\* and its fields, the read of the ksy file, the YAML loader's result (an
\* error, or a number of documents), the first document's top level, and
\* the result of type generation.
MacroInputs ==
    [args : {"LitStr", "Other"},
     item : {"Struct", "Enum", "Unparsable"},
     fields : {"Unit", "Named", "Unnamed"},
     file : {"Ok", "Err"},
     yaml : {"Err", "NoDocs", "OneDoc", "TwoDocs"},
     top : {"Hash", "Array", "String"},
     ty : ty_results]

\* A stage that goes on to the next one.
Proceed(e, next) == [e EXCEPT !.pc = next, !.stages = e.stages + 1]

\* panic!, a failed expect, or an index out of bounds: the expansion ends
\* there with nothing handed back.
Panic(e) == [e EXCEPT !.pc = "panicked", !.stages = e.stages + 1]

\* return of a token stream.
Return(e, out) ==
    [e EXCEPT !.pc = "returned", !.stages = e.stages + 1, !.out = out]

\* parse_macro_input!(args as syn::LitStr): a parse error returns the
\* error's compile_error tokens.
parse_args(e) ==
    IF e.in.args = "LitStr" THEN Proceed(e, "item") ELSE Return(e, "compile_error")

\* parse_macro_input!(item as syn::Item)
parse_item(e) ==
    IF e.in.item # "Unparsable"
    THEN Proceed(e, "struct")
    ELSE Return(e, "compile_error")

\* match item_ast
match_item(e) ==
    IF e.in.item = "Struct" THEN Proceed(e, "fields") ELSE Panic(e)

\* match &struct_item.fields
match_fields(e) ==
    IF e.in.fields = "Unit" THEN Proceed(e, "read") ELSE Panic(e)

\* std::fs::read_to_string(file_path).expect(..)
read_ksy(e) ==
    IF e.in.file = "Ok" THEN Proceed(e, "yaml") ELSE Panic(e)

\* YamlLoader::load_from_str(..).expect(..)[0]
load_yaml(e) ==
    IF e.in.yaml \in {"OneDoc", "TwoDocs"} THEN Proceed(e, "structure") ELSE Panic(e)

\* match structure: a Yaml::Hash goes to types::ty, whose Result is matched
\* next.
match_structure(e) ==
    IF e.in.top = "Hash" THEN Proceed(e, "result") ELSE Panic(e)

\* match result that hands the item back when type generation failed.
match_result_best_effort(e) ==
    IF e.in.ty = "Ok" THEN Return(e, "generated") ELSE Return(e, "generated")

\* match result
match_result(e) ==
    IF e.in.ty = "Ok" THEN Return(e, "generated") ELSE Panic(e)

MacroInit ==
    /\ data = <<>>
    /\ cursor = 0
    /\ last = Call
    /\ repeat = NotRepeating
    /\ \E in \in MacroInputs :
          expansion = [pc |-> "args", stages |-> 0, out |-> "none", in |-> in]

ParseArgs ==
    /\ expansion.pc = "args"
    /\ expansion' = parse_args(expansion)
    /\ UNCHANGED <<data, cursor, last, repeat>>

ParseItem ==
    /\ expansion.pc = "item"
    /\ expansion' = parse_item(expansion)
    /\ UNCHANGED <<data, cursor, last, repeat>>

MatchItem ==
    /\ expansion.pc = "struct"
    /\ expansion' = match_item(expansion)
    /\ UNCHANGED <<data, cursor, last, repeat>>

MatchFields ==
    /\ expansion.pc = "fields"
    /\ expansion' = match_fields(expansion)
    /\ UNCHANGED <<data, cursor, last, repeat>>

ReadKsy ==
    /\ expansion.pc = "read"
    /\ expansion' = read_ksy(expansion)
    /\ UNCHANGED <<data, cursor, last, repeat>>

LoadYaml ==
    /\ expansion.pc = "yaml"
    /\ expansion' = load_yaml(expansion)
    /\ UNCHANGED <<data, cursor, last, repeat>>

MatchStructure ==
    /\ expansion.pc = "structure"
    /\ expansion' = match_structure(expansion)
    /\ UNCHANGED <<data, cursor, last, repeat>>

MatchResult ==
    /\ expansion.pc = "result"
    /\ expansion' = match_result(expansion)
    /\ UNCHANGED <<data, cursor, last, repeat>>

MacroNext ==
    \/ ParseArgs
    \/ ParseItem
    \/ MatchItem
    \/ MatchFields
    \/ ReadKsy
    \/ LoadYaml
    \/ MatchStructure
    \/ MatchResult

MacroSpec == MacroInit /\ [][MacroNext]_vars

----------------------------------------------------------------------------
(* A repeat-until-eos loop of a generated parser, built from the stream's  *)
(* primitives: before each attempt ask is_eof, then read one element of a  *)
(* fixed width; an error of either call ends the parse with that error.    *)
(* repeat.pc is where the loop stands, repeat.elems the elements read.     *)

\* The widths of the elements, in bytes.
ElemWidths == {1, 2, 4}

LoopInit ==
    /\ data \in Streams
    /\ cursor = 0
    /\ last = Call
    /\ expansion = NotExpanding
    /\ \E width \in ElemWidths :
          repeat = [pc |-> "test", width |-> width, elems |-> <<>>]

\* The test before each attempt: is_eof()?
LoopTest ==
    /\ repeat.pc = "test"
    /\ LET r == is_eof(data, cursor)
       IN /\ cursor' = r.pos
          /\ repeat' = [repeat EXCEPT !.pc = IF ~r.ok THEN "failed"
                                             ELSE IF r.bool THEN "done"
                                             ELSE "read"]
    /\ UNCHANGED <<data, last, expansion>>

\* The attempt: read_bytes(width)?
LoopRead ==
    /\ repeat.pc = "read"
    /\ \E r \in read_bytes(data, cursor, repeat.width) :
          /\ cursor' = r.pos
          /\ repeat' = IF r.ok
                       THEN [repeat EXCEPT !.pc = "test",
                                           !.elems = Append(@, r.bytes)]
                       ELSE [repeat EXCEPT !.pc = "failed"]
    /\ UNCHANGED <<data, last, expansion>>

LoopNext ==
    \/ LoopTest
    \/ LoopRead

LoopSpec == LoopInit /\ [][LoopNext]_vars

----------------------------------------------------------------------------
(* Properties.  In each, last is the call just made, last.pre the cursor   *)
(* before it, cursor the cursor after it.                                  *)

\* Index (from 1) in d of the first byte after position p whose char is term;
\* 0 when there is none.
FirstAt(d, p, term) ==
    IF \E i \in (p + 1)..Len(d) : d[i] = term.cp
    THEN CHOOSE i \in (p + 1)..Len(d) :
            /\ d[i] = term.cp
            /\ \A j \in (p + 1)..(i - 1) : d[j] # term.cp
    ELSE 0

\* Whether count bytes remain after position p.
Remain(d, p, count) == p + count <= Len(d) \/ count = 0

\* C1: when the terminator occurs at or after the start position,
\* read_bytes_term returns the bytes from the start position up to the first
\* occurrence of the terminator, followed by the terminator byte exactly when
\* include is set, whatever consume is.
C1_TermReturnsBytesBeforeTerminator ==
    (last.op = "read_bytes_term" /\ FirstAt(data, last.pre, last.term) # 0)
    => LET i == FirstAt(data, last.pre, last.term)
       IN /\ last.ok
          /\ last.bytes = SubSeq(data, last.pre + 1, i - 1)
                          \o (IF last.include THEN <<last.term.cp>> ELSE <<>>)

C1_Witness ==
    /\ last.op = "read_bytes_term"
    /\ last.ok
    /\ last.include
    /\ ~last.consume
    /\ last.pre > 0
    /\ Len(last.bytes) >= 3

\* C2: after a successful read_bytes_term the cursor is just after the
\* terminator when consume is set, and at the terminator otherwise, whatever
\* include is.
C2_TermCursorFollowsConsume ==
    (last.op = "read_bytes_term" /\ last.ok)
    => LET i == FirstAt(data, last.pre, last.term)
       IN cursor = IF last.consume THEN i ELSE i - 1

\* C3: when the terminator does not occur between the cursor and the end of
\* the stream, read_bytes_term fails with EofBeforeTerminator carrying the
\* terminator sought, for every flag combination.
C3_TermMissingIsEofBeforeTerminator ==
    (last.op = "read_bytes_term" /\ FirstAt(data, last.pre, last.term) = 0)
    => /\ ~last.ok
       /\ last.err = "EofBeforeTerminator"
       /\ last.errTerm = last.term
       /\ last.bytes = <<>>

C3_Witness ==
    /\ last.op = "read_bytes_term"
    /\ ~last.ok
    /\ last.include
    /\ last.term.cp < 256
    /\ last.pre + 2 <= Len(data)

\* C4: with at least Len(expected) bytes remaining, ensure_fixed_contents
\* returns Ok exactly when the next Len(expected) bytes equal expected, and
\* otherwise UnexpectedContents with actual the bytes read and expected the
\* argument.
C4_FixedContentsCompares ==
    (last.op = "ensure_fixed_contents"
     /\ Remain(data, last.pre, Len(last.expected)))
    => LET next == SubSeq(remaining_slice(data, last.pre), 1, Len(last.expected))
       IN /\ last.ok <=> (next = last.expected)
          /\ ~last.ok => /\ last.err = "UnexpectedContents"
                         /\ last.actual = next
                         /\ last.errExpected = last.expected

C4_Witness ==
    /\ last.op = "ensure_fixed_contents"
    /\ last.err = "UnexpectedContents"
    /\ last.pre > 0
    /\ Len(last.actual) >= 2
    /\ last.actual[1] = last.expected[1]

\* C5: every ensure_fixed_contents call with at least Len(expected) bytes
\* available examines the Len(expected) bytes at the cursor and advances the
\* cursor by exactly Len(expected), match or mismatch; the call after it
\* starts where it ended, so consecutive calls examine adjacent ranges.
C5_FixedContentsAdvances ==
    [][(last'.op = "ensure_fixed_contents"
        /\ Remain(data, cursor, Len(last'.expected)))
       => /\ cursor' = cursor + Len(last'.expected)
          /\ last'.ok => last'.expected = SubSeq(data, cursor + 1, cursor')
          /\ ~last'.ok => last'.actual = SubSeq(data, cursor + 1, cursor')
          /\ (last.op = "ensure_fixed_contents" /\ last.err # IoUnexpectedEof)
             => cursor = last.pre + Len(last.expected)]_vars

C5_Witness ==
    /\ last.op = "ensure_fixed_contents"
    /\ last.err = "UnexpectedContents"
    /\ last.pre > 0
    /\ Len(last.expected) >= 2
    /\ cursor = last.pre + Len(last.expected)

\* Byte k (from 1, least significant first) of a magnitude in limbs.
ByteOf(mag, k) == (mag[(k + 1) \div 2] \div (IF k % 2 = 1 THEN 1 ELSE 256)) % 256

\* mag - 1 for a magnitude that is not zero.
Pred(mag) ==
    [i \in 1..4 |->
        IF \A j \in 1..(i - 1) : mag[j] = 0
        THEN (mag[i] + 65535) % 65536
        ELSE mag[i]]

\* The width bytes, least significant first, of the two's complement
\* representation of an integer: those of the magnitude, and for a negative
\* number the complemented bytes of the magnitude less one.
TwosComplementLE(int, width) ==
    [k \in 1..width |->
        IF int.neg THEN 255 - ByteOf(Pred(int.mag), k) ELSE ByteOf(int.mag, k)]

\* Whether an integer is a value of the type of that width and signedness.
InRange(int, width, signed) ==
    LET m == IF int.neg THEN Pred(int.mag) ELSE int.mag
    IN /\ \A k \in (width + 1)..8 : ByteOf(m, k) = 0
       /\ \A i \in 1..4 : m[i] \in 0..65535
       /\ int.neg => signed /\ int.mag # <<0, 0, 0, 0>>
       /\ signed => ByteOf(m, width) < 128

\* C6: for every width in {1,2,4,8}, signedness and byte order, an integer
\* read with at least width bytes remaining returns the value of the next
\* width bytes in that byte order (two's complement when signed) and advances
\* the cursor by width; [1..8] read as s4be is 16909060, as s4le 67305985, as
\* u1 1.
C6_IntegerReadDecodes ==
    (last.op = "read_int" /\ Remain(data, last.pre, last.width))
    => LET next == SubSeq(data, last.pre + 1, last.pre + last.width)
       IN /\ last.ok
          /\ cursor = last.pre + last.width
          /\ InRange(last.int, last.width, last.signed)
          /\ TwosComplementLE(last.int, last.width)
                = (IF last.big THEN Reverse(next) ELSE next)
          /\ (data = int_buf /\ last.pre = 0)
             => /\ (last.width = 4 /\ last.signed /\ last.big)
                   => last.int = Num(16909060)
                /\ (last.width = 4 /\ last.signed /\ ~last.big)
                   => last.int = Num(67305985)
                /\ (last.width = 2 /\ last.big) => last.int = Num(258)
                /\ (last.width = 2 /\ ~last.big) => last.int = Num(513)
                /\ last.width = 1 => last.int = Num(1)
          /\ (data[last.pre + 1] = 255 /\ last.width = 1 /\ last.signed)
             => last.int = Num(-1)

C6_Witness ==
    /\ last.op = "read_int"
    /\ last.ok
    /\ last.width = 8
    /\ last.signed
    /\ ~last.big
    /\ last.int.neg
    /\ last.int.mag[1] # 0
    /\ last.int.mag[4] # 0
    /\ last.pre > 0

\* C7: is_eof returns Ok(true) exactly when no bytes remain between the cursor
\* and the end of the stream, Ok(false) otherwise, and never an error, on
\* every stream, an empty one included.
C7_IsEofAnswers ==
    last.op = "is_eof"
    => /\ last.ok
       /\ last.bool <=> (last.pre >= Len(data))

\* C8: read_bytes(count) with at least count bytes remaining returns the next
\* count bytes and advances the cursor by count, so two read_bytes calls in a
\* row return one contiguous segment of the stream between them; on [0..9],
\* read_bytes(2) then read_bytes(3) yield [0,1] then [2,3,4].
C8_ReadBytesConsecutive ==
    [][(last'.op = "read_bytes" /\ Remain(data, cursor, last'.count))
       => /\ last'.ok
          /\ Len(last'.bytes) = last'.count
          /\ \A k \in 1..last'.count :
                /\ cursor + k <= Len(data)
                /\ last'.bytes[k] = data[cursor + k]
          /\ cursor' = cursor + last'.count
          /\ (last.op = "read_bytes" /\ last.ok)
             => last.bytes \o last'.bytes
                   = SubSeq(data, last.pre + 1,
                            last.pre + last.count + last'.count)
          /\ (data = new_buf /\ last.op = "read_bytes" /\ last.pre = 0
              /\ last.count = 2 /\ last'.count = 3)
             => last.bytes = <<0, 1>> /\ last'.bytes = <<2, 3, 4>>]_vars

C8_Witness ==
    /\ data = new_buf
    /\ last.op = "read_bytes"
    /\ last.ok
    /\ last.pre = 2
    /\ last.count = 3
    /\ last.bytes = <<2, 3, 4>>
    /\ cursor = 5

\* C9: read_bytes_full returns the bytes from the cursor to the end of the
\* stream, none of those already consumed, and leaves the cursor with nothing
\* remaining: at the end of the stream, or where it was if that was beyond
\* the end; at end of stream it returns the empty byte string.
C9_ReadBytesFullReturnsRest ==
    last.op = "read_bytes_full"
    => /\ last.ok
       /\ Len(last.bytes) = Max(Len(data) - last.pre, 0)
       /\ \A k \in 1..Len(last.bytes) : last.bytes[k] = data[last.pre + k]
       /\ last.pre >= Len(data) => last.bytes = <<>>
       /\ cursor = Max(last.pre, Len(data))

C9_Witness ==
    /\ last.op = "read_bytes_full"
    /\ last.pre > 0
    /\ Len(last.bytes) >= 2
    /\ cursor = Len(data)

\* C10: pos returns the cursor's offset from the start of the stream and size
\* the length of the stream wherever the cursor is; neither moves the cursor,
\* and the stream's length never changes.
C10_PosAndSizeAreQueries ==
    [][/\ last'.op = "pos" => last'.u64 = cursor /\ cursor' = cursor
       /\ last'.op = "size" => last'.u64 = Len(data) /\ cursor' = cursor
       /\ Len(data') = Len(data)]_vars

C10_Witness ==
    /\ last.op = "size"
    /\ last.pre > 0
    /\ last.pre < Len(data)
    /\ last.u64 = Len(data)
    /\ cursor = last.pre

\* Whether every stage of an expansion succeeds on these inputs.
AllStagesSucceed(in) ==
    /\ in.args = "LitStr"
    /\ in.item = "Struct"
    /\ in.fields = "Unit"
    /\ in.file = "Ok"
    /\ in.yaml \in {"OneDoc", "TwoDocs"}
    /\ in.top = "Hash"
    /\ in.ty = "Ok"

\* The number of the first stage that fails on these inputs (9: none does).
FirstFailure(in) ==
    IF in.args # "LitStr" THEN 1
    ELSE IF in.item = "Unparsable" THEN 2
    ELSE IF in.item # "Struct" THEN 3
    ELSE IF in.fields # "Unit" THEN 4
    ELSE IF in.file # "Ok" THEN 5
    ELSE IF in.yaml \in {"Err", "NoDocs"} THEN 6
    ELSE IF in.top # "Hash" THEN 7
    ELSE IF in.ty # "Ok" THEN 8
    ELSE 9

\* C11: kaitai_source hands back generated output only when every stage
\* succeeds (a fieldless struct, the file read, YAML parsed, a mapping at the
\* top, type generation Ok); a failure at any stage ends the expansion at
\* that stage and no definition is handed back.
C11_OutputOnlyWhenEveryStageSucceeds ==
    /\ expansion.out = "generated"
       <=> (expansion.pc = "returned" /\ AllStagesSucceed(expansion.in))
    /\ expansion.pc = "panicked"
       => /\ expansion.out = "none"
          /\ expansion.stages = FirstFailure(expansion.in)
    /\ (expansion.pc = "returned" /\ ~AllStagesSucceed(expansion.in))
       => /\ expansion.out = "compile_error"
          /\ expansion.stages = FirstFailure(expansion.in)
    /\ expansion.out = "generated" => expansion.stages = 8

C11_Witness ==
    /\ expansion.pc = "panicked"
    /\ expansion.stages = 8
    /\ expansion.in.ty = "Err"
    /\ expansion.out = "none"

\* The number of bytes the last call needs: the count of read_bytes, the
\* width of an integer read, the length of the expected contents.
Needed ==
    IF last.op = "read_bytes" THEN last.count
    ELSE IF last.op = "read_int" THEN last.width
    ELSE Len(last.expected)

\* C12: when fewer bytes remain than read_bytes(count), an integer read or
\* ensure_fixed_contents requires, the call returns an error, never a
\* shortened or zero-padded success value.
C12_ShortReadIsAnError ==
    (last.op \in {"read_bytes", "read_int", "ensure_fixed_contents"}
     /\ ~Remain(data, last.pre, Needed))
    => /\ ~last.ok
       /\ last.err = IoUnexpectedEof
       /\ last.bytes = <<>>
       /\ last.int = Num(0)

C12_Witness ==
    /\ last.op = "read_int"
    /\ last.width = 4
    /\ last.pre < Len(data)
    /\ last.pre + 4 > Len(data)
    /\ ~last.ok

\* C13: is_eof is a pure query: on every stream and at every cursor position,
\* end of stream included, it leaves the cursor where it was.
C13_IsEofLeavesCursor ==
    last.op = "is_eof" => cursor = last.pre

\* C15: when read_bytes_term fails with EofBeforeTerminator the bytes scanned
\* stay consumed: nothing remains after the cursor (it is at the end of the
\* stream, not where it was before the call), so a read_bytes_term that
\* follows, with any terminator, fails too.
C15_TermFailureConsumesTheRest ==
    [][/\ (last'.op = "read_bytes_term" /\ ~last'.ok)
          => /\ last'.err = "EofBeforeTerminator"
             /\ cursor' = Max(cursor, Len(data))
             /\ cursor < Len(data) => cursor' # cursor
       /\ (last.op = "read_bytes_term" /\ ~last.ok
           /\ last'.op = "read_bytes_term")
          => /\ ~last'.ok
             /\ last'.err = "EofBeforeTerminator"
             /\ last'.errTerm = last'.term]_vars

C15_Witness ==
    /\ last.op = "read_bytes_term"
    /\ ~last.ok
    /\ last.pre > 0
    /\ last.pre + 2 <= Len(data)
    /\ cursor = Len(data)

\* C16: read_bytes_term matches the terminator char against each byte widened
\* to a char: a terminator of code point 0..255 matches the byte of that
\* value, and one above 255 matches no byte, so the call consumes the rest
\* of the stream and fails with EofBeforeTerminator.
C16_TermMatchesByCodePoint ==
    last.op = "read_bytes_term"
    => /\ last.term.cp > 255
          => /\ ~last.ok
             /\ last.err = "EofBeforeTerminator"
             /\ last.errTerm = last.term
             /\ cursor >= Len(data)
       /\ last.term.cp <= 255
          => /\ last.ok <=> \E i \in (last.pre + 1)..Len(data) :
                                data[i] = last.term.cp
             /\ last.ok
                => LET at == last.pre + Len(last.bytes)
                             + (IF last.include THEN 0 ELSE 1)
                   IN /\ data[at] = last.term.cp
                      /\ \A j \in (last.pre + 1)..(at - 1) :
                            data[j] # last.term.cp

C16_Witness ==
    /\ last.op = "read_bytes_term"
    /\ last.term.cp = 259
    /\ data = new_buf
    /\ last.pre <= 2
    /\ ~last.ok
    /\ cursor = Len(data)

\* C14: a repeat-until-eos loop (is_eof before each attempt, then one
\* fixed-width element) ends on every finite stream, an empty one included,
\* exactly when no bytes remain: the elements it has read are the whole
\* elements of the stream in order, it is done only with the stream used up
\* (zero elements on an empty stream), and it fails only on a partial
\* trailing element, which is never returned as a value.
C14_RepeatEosYieldsWholeElements ==
    /\ \A k \in 1..Len(repeat.elems) :
          repeat.elems[k] = SubSeq(data, (k - 1) * repeat.width + 1,
                                   k * repeat.width)
    /\ Len(repeat.elems) * repeat.width <= Len(data)
    /\ repeat.pc = "done"
       => Len(repeat.elems) * repeat.width = Len(data)
    /\ repeat.pc = "failed"
       => /\ Len(data) % repeat.width # 0
          /\ Len(repeat.elems) = Len(data) \div repeat.width
    /\ data = <<>> => repeat.pc \in {"test", "done"}

====
